---- MODULE Spec2Model ----
(***************************************************************************)
(* Presentation-continuity model of the SlidesGPT MCP server               *)
(* (slides_server_node/src/server.ts, current version, lines 1-1400).      *)
(*                                                                         *)
(* The server is a single-threaded event loop.  Every tool call is one     *)
(* async task: the code between two awaits runs atomically, and at every   *)
(* await other tasks, the clock and the cleanup timer may run.  Each       *)
(* action below is one such stretch of code; the stretches of a helper     *)
(* between fetch, response.text() and response.json() touch nothing but    *)
(* the response and are joined into one action.                            *)
(*                                                                         *)
(* Contexts are JavaScript objects: a handler keeps its reference to the   *)
(* context after the registry dropped it, so the model keeps a heap of     *)
(* context objects and a registry mapping presentation ids to heap         *)
(* addresses.                                                              *)
(*                                                                         *)
(* crypto.randomBytes is modelled as a stream of fresh values (rng): the   *)
(* 128-bit ids it yields are assumed never to repeat or to be guessed      *)
(* before they are generated.                                              *)
(***************************************************************************)
EXTENDS Integers, Sequences, FiniteSets, TLC

\* ---------------------------------------------------------------- bounds
MaxCalls == 2
MaxSlides == 2
MaxTicks == 1
MaxSessions == 2
MaxPosts == 2

\* ------------------------------------------------------- program constants
\* 24 * 60 * 60 * 1000: the retention window of the cleanup timer, in ms.
RETENTION_MS == 86400000

\* The z.enum of theme ids accepted by apply_theme.
THEME_IDS ==
    { "copenhagen-light", "copenhagen-dark", "tokyo-light", "tokyo-dark",
      "paris-light", "paris-dark", "berlin-light", "berlin-dark",
      "new-york-light", "new-york-dark", "la-light", "la-dark",
      "zurich-light", "zurich-dark", "shanghai-light", "shanghai-dark",
      "minimal-pure-light", "minimal-pure-dark", "zen-gray-light",
      "zen-gray-dark", "aurora-glow-1", "aurora-glow-2", "aurora-glow-3",
      "aurora-glow-4", "cosmic-pulse-light", "cosmic-pulse-dark" }

\* ------------------------------------------------------- optional values
\* null / undefined is the empty set, a present value v is {v}.
None == {}

Some(v) == {v}

The(s) == CHOOSE v \in s : TRUE

\* JavaScript truthiness of an optional string: undefined, null and "" are falsy.
Truthy(s) == s # None /\ The(s) # ""

\* The same for an optional deck id, a sequence of characters.
HasDeck(d) == d # None /\ The(d) # <<>>

\* ------------------------------------------------- deck id from a view URL
\* URLs are sequences of one-character strings.
AlnumChars ==
    { "a","b","c","d","e","f","g","h","i","j","k","l","m","n","o","p","q",
      "r","s","t","u","v","w","x","y","z",
      "A","B","C","D","E","F","G","H","I","J","K","L","M","N","O","P","Q",
      "R","S","T","U","V","W","X","Y","Z",
      "0","1","2","3","4","5","6","7","8","9" }

ViewPrefix == <<"/", "v", "i", "e", "w", "/">>

\* The regular expression /\/view\/([a-zA-Z0-9]+)/ matches at position i.
MatchesAt(url, i) ==
    /\ i + Len(ViewPrefix) <= Len(url)
    /\ SubSeq(url, i, i + Len(ViewPrefix) - 1) = ViewPrefix
    /\ url[i + Len(ViewPrefix)] \in AlnumChars

\* Last position of the greedy run [a-zA-Z0-9]+ that starts at position j.
RunEnd(url, j) ==
    CHOOSE k \in j..Len(url) :
        /\ \A m \in j..k : url[m] \in AlnumChars
        /\ k = Len(url) \/ url[k + 1] \notin AlnumChars

\* Variant: the capture runs to the end of the URL.
extractDeckIdFromUrl_ToEnd(url) ==
    LET starts == { i \in 1..Len(url) : MatchesAt(url, i) }
    IN  IF starts = {} THEN None
        ELSE LET i == CHOOSE x \in starts : \A y \in starts : x <= y
                 j == i + Len(ViewPrefix)
             IN  Some(SubSeq(url, j, Len(url)))

\* url.match(/\/view\/([a-zA-Z0-9]+)/): the capture of the leftmost match.
extractDeckIdFromUrl(url) ==
    LET starts == { i \in 1..Len(url) : MatchesAt(url, i) }
    IN  IF starts = {}
        THEN None
        ELSE LET i == CHOOSE s \in starts : \A t \in starts : s <= t
                 j == i + Len(ViewPrefix)
             IN  Some(SubSeq(url, j, RunEnd(url, j)))

\* "s.com//view/d1"
UrlDeck1 == <<"s", ".", "c", "o", "m", "/", "/", "v", "i", "e", "w", "/", "d", "1">>

\* "s.com//view/d2?x" : another deck, followed by a non-alphanumeric tail
UrlDeck2 == <<"s", ".", "c", "o", "m", "/", "/", "v", "i", "e", "w", "/", "d", "2", "?", "x">>

\* "s.com/view/" : no deck id after the prefix
UrlNoDeck == <<"s", ".", "c", "o", "m", "/", "v", "i", "e", "w", "/">>

\* The view URLs the remote service answers with.
ViewUrls == { UrlDeck1, UrlDeck2, UrlNoDeck }

\* ------------------------------------------------------------------ state
VARIABLES
    presentations,  \* the registry: presentation id -> address of its context
    heap,           \* the context objects ever created, by address
    themeWriter,    \* address -> the call whose applyTheme last set its themeId
    rng,            \* number of values drawn from crypto.randomBytes so far
    now,            \* the clock, in ms since the server started
    ticks,          \* number of clock steps taken (bounds the model)
    swept,          \* history: the latest step was a run of the cleanup timer
                    \* that deleted a context
    calls,          \* the tool calls received, in order of arrival
    sessions,       \* the sessions map: session id -> its server instance
    streams,        \* the SSE connections accepted, by session id
    posts           \* the message POSTs answered, in order

vars == <<presentations, heap, themeWriter, rng, now, ticks, swept, calls,
          sessions, streams, posts>>

sessionVars == <<sessions, streams, posts>>

\* Variant: the identity headers are drawn anew for every request.
RemoteRequest_PerCallIds(endpoint, slide, deck, theme, context) ==
    [ endpoint |-> endpoint, slide |-> slide, deckId |-> deck, themeId |-> theme,
      userId |-> rng + 2, conversationId |-> rng + 1 ]

\* ------------------------------------------------------- requests, responses
\* A request sent to the remote service, with the identity headers it carries.
RemoteRequest(endpoint, slide, deck, theme, context) ==
    [ endpoint |-> endpoint, slide |-> slide, deckId |-> deck, themeId |-> theme,
      userId |-> context.userId, conversationId |-> context.conversationId ]

\* The value a CallTool handler returns.  text and status are the message of
\* the response and the HTTP status interpolated into it; body is the text
\* of a remote answer quoted in the response.  No handler quotes one: the
\* helpers put response.status alone into the Error they throw (the text of
\* a failed answer goes to console.error, searchImages never reads it) and
\* the catch block builds the response from error.message.
ToolResponse(isError, text, status, pid, deck, theme, offer, slides) ==
    [ returned |-> TRUE, isError |-> isError, text |-> text, status |-> status,
      presentation_id |-> pid, deck_id |-> deck, theme_id |-> theme,
      theme_options |-> offer, slides |-> slides, body |-> None ]

NoResponse ==
    [ returned |-> FALSE, isError |-> FALSE, text |-> "", status |-> 0,
      presentation_id |-> None, deck_id |-> None, theme_id |-> None,
      theme_options |-> FALSE, slides |-> <<>>, body |-> None ]

\* Variant: the error is thrown on to the transport, no response is returned.
ErrorResponse_Rethrown(message, status) ==
    [ returned |-> FALSE, isError |-> FALSE, text |-> message, status |-> status,
      presentation_id |-> None, deck_id |-> None, theme_id |-> None,
      theme_options |-> FALSE, slides |-> <<>>, body |-> None ]

\* The catch block of the CallTool handler: "Error: <message>", isError.
ErrorResponse(message, status) ==
    ToolResponse(TRUE, message, status, None, None, None, FALSE, <<>>)

\* The local state of a handler: the tool name, the parsed arguments (args.
\* presentation_id, the number of slides, args.theme_id), the context it holds
\* (obj, 0 if none), the slide or image count it is at (i), the value the
\* awaited helper returned (result), the results pushed so far, the remote
\* requests it has sent, the place it is suspended at (pc) and its response.
NewCall(tool, pid, n, theme) ==
    [ tool |-> tool, presentation_id |-> pid, slides |-> n,
      theme_id |-> theme, pc |-> "start", obj |-> 0, i |-> 0,
      result |-> <<>>, results |-> <<>>, reqs |-> <<>>, out |-> NoResponse ]

\* A call whose arguments the parser rejected: the ZodError is caught by the
\* handler's catch before any argument is used.
Rejected(tool) == [ NewCall(tool, None, 0, "") EXCEPT
                      !.pc = "done", !.out = ErrorResponse("ZodError", 0) ]

\* Variant: every response, an error response included, carries the id of
\* the context the call holds.
Finished_CarriesId(call, response) ==
    [call EXCEPT !.pc = "done",
                 !.out = [response EXCEPT !.presentation_id =
                             IF call.obj \notin 1..Len(heap) THEN None
                             ELSE Some(heap[call.obj].presentationId)]]

\* The handler returns: the call is over and the response is with the caller.
Finished(call, response) == [call EXCEPT !.pc = "done", !.out = response]

\* --------------------------------------------------------------- registry
\* Variant: an id that does not depend on the random value.
generatePresentationId_Fixed(r) == "pres_1"

\* `pres_${crypto.randomBytes(16).toString("hex")}`, from the r-th random value.
generatePresentationId(r) == "pres_" \o ToString(r)

\* Variant: the context always carries a generated id, whatever its key.
NewContext_GeneratedId(id, r, t) ==
    [ presentationId |-> generatePresentationId(r + 1),
      conversationId |-> r + 1, userId |-> r + 2,
      slideCount |-> 0, createdAt |-> t, lastUsed |-> t,
      themeId |-> None, themeOffered |-> FALSE, deckId |-> None ]

\* A new context object (the object literal of getOrCreatePresentation); r is
\* the number of random values drawn before its two ids are generated.
NewContext(id, r, t) ==
    [ presentationId |-> id, conversationId |-> r + 1, userId |-> r + 2,
      slideCount |-> 0, createdAt |-> t, lastUsed |-> t,
      themeId |-> None, themeOffered |-> FALSE, deckId |-> None ]

\* presentations.set(id, context) with a newly allocated context.
Registered(id, addr) ==
    [ k \in DOMAIN presentations \cup {id} |->
        IF k = id THEN addr ELSE presentations[k] ]

\* Variant: an id that is not in the registry is replaced by a generated one.
getOrCreatePresentation_IgnoresSupplied(presentationId) ==
    IF Truthy(presentationId) /\ The(presentationId) \in DOMAIN presentations
    THEN LET addr == presentations[The(presentationId)]
         IN  [ obj |-> addr, presentations |-> presentations,
               heap |-> [heap EXCEPT ![addr].lastUsed = now], rng |-> rng ]
    ELSE LET newPresentationId == generatePresentationId(rng + 1)
             addr == Len(heap) + 1
         IN  [ obj |-> addr, presentations |-> Registered(newPresentationId, addr),
               heap |-> Append(heap, NewContext(newPresentationId, rng + 1, now)),
               rng |-> rng + 3 ]

\* Variant: never looks the id up, always creates a context.
getOrCreatePresentation_AlwaysNew(presentationId) ==
    LET fresh == ~Truthy(presentationId)
        newPresentationId ==
            IF fresh THEN generatePresentationId(rng + 1)
                     ELSE The(presentationId)
        r == IF fresh THEN rng + 1 ELSE rng
        addr == Len(heap) + 1
    IN  [ obj |-> addr, presentations |-> Registered(newPresentationId, addr),
          heap |-> Append(heap, NewContext(newPresentationId, r, now)),
          rng |-> r + 2 ]

\* getOrCreatePresentation(presentationId): the context returned (obj, an
\* address) and the registry, heap and random stream it leaves behind.
getOrCreatePresentation(presentationId) ==
    IF Truthy(presentationId) /\ The(presentationId) \in DOMAIN presentations
    THEN LET addr == presentations[The(presentationId)]
         IN  [ obj |-> addr, presentations |-> presentations,
               heap |-> [heap EXCEPT ![addr].lastUsed = now], rng |-> rng ]
    ELSE LET fresh == ~Truthy(presentationId)
             newPresentationId ==
                 IF fresh THEN generatePresentationId(rng + 1)
                          ELSE The(presentationId)
             r == IF fresh THEN rng + 1 ELSE rng
             addr == Len(heap) + 1
         IN  [ obj |-> addr, presentations |-> Registered(newPresentationId, addr),
               heap |-> Append(heap, NewContext(newPresentationId, r, now)),
               rng |-> r + 2 ]

\* The context a registry key resolves to is the object at that address.
IsRegistered(addr) ==
    /\ heap[addr].presentationId \in DOMAIN presentations
    /\ presentations[heap[addr].presentationId] = addr

\* Variant: the comparison is reversed, the contexts deleted are those used
\* within the last 24 hours.
IsStale_Reversed(context, t) == context.lastUsed > t - RETENTION_MS

\* Variant: a context last used exactly 24 hours ago is deleted as well.
IsStale_Inclusive(context, t) == context.lastUsed <= t - RETENTION_MS

\* The cleanup timer's test: lastUsed < now - 24h.
IsStale(context, t) == context.lastUsed < t - RETENTION_MS

\* ---------------------------------------------------------------- parsers
\* Variant: the slide data are not validated.
slideInputParser_Unchecked(presentation_id, slides) ==
    [ ok |-> TRUE,
      presentation_id |->
          IF presentation_id # None /\ The(presentation_id) = ""
          THEN None ELSE presentation_id ]

\* slideViewerInputParser / slideCarouselInputParser: presentation_id is an
\* optional string whose empty value is turned into undefined; every slide
\* must satisfy SlideSchema (slides is the sequence of "this slide is valid").
slideInputParser(presentation_id, slides) ==
    [ ok |-> \A k \in 1..Len(slides) : slides[k],
      presentation_id |->
          IF presentation_id # None /\ The(presentation_id) = ""
          THEN None ELSE presentation_id ]

\* applyThemeInputParser: presentation_id a string, theme_id one of THEME_IDS.
applyThemeInputParser(presentation_id, theme_id) ==
    [ ok |-> presentation_id # None /\ theme_id \in THEME_IDS ]

\* showThemePickerInputParser: presentation_id a string.
showThemePickerInputParser(presentation_id) ==
    [ ok |-> presentation_id # None ]

\* ----------------------------------------------------- handler fragments
\* Variant: stores the extracted deck id whether or not the context has one.
storeDeckId_Overwrite(context, url) ==
    IF url # <<>>
    THEN LET extractedDeckId == extractDeckIdFromUrl(url)
         IN  IF extractedDeckId # None
             THEN [context EXCEPT !.deckId = extractedDeckId]
             ELSE context
    ELSE context

\* "Extract and store the actual deck ID": only when the context has none.
storeDeckId(context, url) ==
    IF ~HasDeck(context.deckId) /\ url # <<>>
    THEN LET extractedDeckId == extractDeckIdFromUrl(url)
         IN  IF extractedDeckId # None
             THEN [context EXCEPT !.deckId = extractedDeckId]
             ELSE context
    ELSE context

\* Variant: slideCount is compared as it was before createSlide counted.
isFirstSlide_BeforeCount(context) ==
    /\ context.slideCount = 0
    /\ ~context.themeOffered
    /\ ~Truthy(context.themeId)

\* create_slide: is this the first slide, with no theme offered or applied?
isFirstSlide(context) ==
    /\ context.slideCount = 1
    /\ ~context.themeOffered
    /\ ~Truthy(context.themeId)

\* Variant: the themeOffered flag is not consulted.
isFirstBatch_IgnoresOffered(context) == ~Truthy(context.themeId)

\* create_slide_carousel: no theme offered or applied yet?
isFirstBatch(context) ==
    /\ ~context.themeOffered
    /\ ~Truthy(context.themeId)

\* createSlide up to its first await: the generate request for slide k.
GenerateRequest(context, k) == RemoteRequest("generate", k, None, "", context)

\* Variant: every createSlide is started at once (Promise.all over the map).
SlidesToRequest_AllAtOnce(k, n) == IF k = 1 THEN 1..n ELSE {}

\* The slides a carousel call asks the remote service for when it reaches
\* slide k of n: one createSlide is awaited per iteration of the for loop.
SlidesToRequest(k, n) == IF k <= n THEN {k} ELSE {}

\* The elements of a set of numbers, in ascending order.
Ascending(S) ==
    CHOOSE q \in [1..Cardinality(S) -> S] :
        \A a, b \in 1..Cardinality(S) : a < b => q[a] < q[b]

\* The generate requests for the slides in S, in ascending order.
GenerateRequests(context, S) ==
    [ j \in 1..Cardinality(S) |-> GenerateRequest(context, Ascending(S)[j]) ]

\* The end of create_slide_carousel, after the loop: the theme offer and the
\* response.  Gives the context as it is left and the response returned.
CarouselFinish(context, results) ==
    LET first == isFirstBatch(context)
    IN  [ context |-> IF first THEN [context EXCEPT !.themeOffered = TRUE]
                               ELSE context,
          out |-> ToolResponse(FALSE, "Created slides", 0,
                               Some(context.presentationId), None, None,
                               first, results) ]

\* Variant: resolves the id with getOrCreatePresentation.
presentationsGet_OrCreate(id) ==
    LET got == getOrCreatePresentation(Some(id))
    IN  [ found |-> TRUE, obj |-> got.obj, presentations |-> got.presentations,
          heap |-> got.heap, rng |-> got.rng ]

\* presentations.get(id), which leaves the registry as it is.
presentationsGet(id) ==
    [ found |-> id \in DOMAIN presentations,
      obj |-> IF id \in DOMAIN presentations THEN presentations[id] ELSE 0,
      presentations |-> presentations, heap |-> heap, rng |-> rng ]

\* Variant: the guard is missing.
deckReady_Unchecked(context) == TRUE

\* apply_theme's guard "if (!presentation.deckId) return ... isError".
deckReady(context) == HasDeck(context.deckId)

\* ------------------------------------------------------------ environment
\* Tokens a caller can present: none, the empty string, an id of a context
\* created so far, or a made-up token.
FabricatedToken == "tok_x"

PidInputs ==
    {None, Some(""), Some(FabricatedToken)}
        \cup { Some(heap[a].presentationId) : a \in 1..Len(heap) }

\* slides_data: up to MaxSlides slides, each valid or not against SlideSchema.
SlidesInputs == UNION { [1..n -> BOOLEAN] : n \in 0..MaxSlides }

\* theme_id: two themes of the catalog and one that is not in it.
ThemeInputs == {"tokyo-dark", "zen-gray-light", "comic-sans"}

\* HTTP statuses of the remote service: a success and a failure.
HttpStatuses == {200, 500}

ResponseOk(status) == status \in 200..299

\* Bodies of a 2xx answer to /chat/generate: JSON that satisfies
\* GenerateResponseSchema, with some view URL, or anything else.
GenerateBodies ==
    { [valid |-> TRUE, url |-> u] : u \in ViewUrls }
        \cup { [valid |-> FALSE, url |-> <<>>] }

\* Bodies of a 2xx answer to /api/chat/apply-theme: not JSON, the JSON value
\* null, or a JSON object.
ApplyThemeBodies == {"invalid", "null", "object"}

\* Bodies of a 2xx answer to /chat/search: not JSON, an empty array, an
\* array of images, or a JSON object that is no array.
SearchBodies == {"invalid", "empty", "images", "object"}

Init ==
    /\ presentations = [id \in {} |-> 0]
    /\ heap = <<>>
    /\ themeWriter = [a \in {} |-> 0]
    /\ rng = 0
    /\ now = 0
    /\ ticks = 0
    /\ swept = FALSE
    /\ calls = <<>>
    /\ sessions = [id \in {} |-> 0]
    /\ streams = <<>>
    /\ posts = <<>>

\* Places a new call can take: calls are numbered in order of arrival.
CanCall == Len(calls) < MaxCalls

\* ------------------------------------------------------------ create_slide
\* The create_slide handler from its entry to the await of fetch in createSlide.
CreateSlideCall(presentation_id, slide_ok) ==
    /\ CanCall
    /\ LET args == slideInputParser(presentation_id, <<slide_ok>>)
           call == NewCall("create_slide", args.presentation_id, 1, "")
       IN  IF ~args.ok
           THEN /\ calls' = Append(calls, Rejected("create_slide"))
                /\ UNCHANGED <<presentations, heap, rng>>
           ELSE LET got == getOrCreatePresentation(args.presentation_id)
                IN  /\ presentations' = got.presentations
                    /\ heap' = got.heap
                    /\ rng' = got.rng
                    /\ calls' = Append(calls,
                           [call EXCEPT !.obj = got.obj, !.i = 1, !.pc = "fetch",
                                        !.reqs = <<GenerateRequest(got.heap[got.obj], 1)>>])
    /\ UNCHANGED <<themeWriter, now, ticks>>

\* Variant: slideCount++ follows response.json() and precedes the parse of
\* the body, so a malformed body is counted.
CreateSlideResponded_CountsBeforeParse(c, status, body) ==
    /\ c \in 1..Len(calls)
    /\ calls[c].tool \in {"create_slide", "create_slide_carousel"}
    /\ calls[c].pc = "fetch"
    /\ IF ~ResponseOk(status)
       THEN /\ calls' = [calls EXCEPT ![c] =
                   Finished(@,
                            ErrorResponse("Failed to create slide", status))]
            /\ UNCHANGED heap
       ELSE /\ heap' = [heap EXCEPT ![calls[c].obj].slideCount = @ + 1]
            /\ calls' = [calls EXCEPT ![c] =
                   IF ~body.valid
                   THEN Finished(@, ErrorResponse("ZodError", 0))
                   ELSE [@ EXCEPT !.pc = "ret",
                                  !.result = [slide |-> calls[c].i, url |-> body.url]]]
    /\ UNCHANGED <<presentations, themeWriter, rng, now, ticks>>

\* Variant: slideCount is overwritten with the call's own tally of slides
\* instead of being incremented in place.
CreateSlideResponded_OwnTally(c, status, body) ==
    /\ c \in 1..Len(calls)
    /\ calls[c].tool \in {"create_slide", "create_slide_carousel"}
    /\ calls[c].pc = "fetch"
    /\ IF ~ResponseOk(status)
       THEN /\ calls' = [calls EXCEPT ![c] =
                   Finished(@,
                            ErrorResponse("Failed to create slide", status))]
            /\ UNCHANGED heap
       ELSE IF ~body.valid
       THEN /\ calls' = [calls EXCEPT ![c] =
                   Finished(@, ErrorResponse("ZodError", 0))]
            /\ UNCHANGED heap
       ELSE /\ heap' = [heap EXCEPT ![calls[c].obj].slideCount =
                                        Len(calls[c].results) + 1]
            /\ calls' = [calls EXCEPT ![c].pc = "ret",
                                      ![c].result = [slide |-> calls[c].i, url |-> body.url]]
    /\ UNCHANGED <<presentations, themeWriter, rng, now, ticks>>

\* Variant: a generation that fails for a context without slides takes the
\* context out of the registry again.
CreateSlideResponded_RollsBack(c, status, body) ==
    /\ c \in 1..Len(calls)
    /\ calls[c].tool \in {"create_slide", "create_slide_carousel"}
    /\ calls[c].pc = "fetch"
    /\ IF ~ResponseOk(status) \/ ~body.valid
       THEN /\ calls' = [calls EXCEPT ![c] =
                   Finished(@,
                            IF ~ResponseOk(status)
                            THEN ErrorResponse("Failed to create slide", status)
                            ELSE ErrorResponse("ZodError", 0))]
            /\ presentations' =
                   [ id \in { k \in DOMAIN presentations :
                                ~(/\ presentations[k] = calls[c].obj
                                  /\ heap[calls[c].obj].slideCount = 0) } |->
                       presentations[id] ]
            /\ UNCHANGED heap
       ELSE /\ heap' = [heap EXCEPT ![calls[c].obj].slideCount = @ + 1]
            /\ calls' = [calls EXCEPT ![c].pc = "ret",
                                      ![c].result = [slide |-> calls[c].i, url |-> body.url]]
            /\ UNCHANGED presentations
    /\ UNCHANGED <<themeWriter, rng, now, ticks>>

\* createSlide from the answer of fetch to its return or throw.  On a failure
\* status it awaits response.text() and throws "Failed to create slide:
\* <status>"; otherwise it awaits response.json(), and GenerateResponseSchema
\* .parse throws on a malformed body, or slideCount++ and the parsed response
\* is returned.  The two awaits in between touch nothing but the response.
\* A throw is caught by the handler's catch, which returns the error response.
CreateSlideResponded(c, status, body) ==
    /\ c \in 1..Len(calls)
    /\ calls[c].tool \in {"create_slide", "create_slide_carousel"}
    /\ calls[c].pc = "fetch"
    /\ IF ~ResponseOk(status)
       THEN /\ calls' = [calls EXCEPT ![c] =
                   Finished(@,
                            ErrorResponse("Failed to create slide", status))]
            /\ UNCHANGED heap
       ELSE IF ~body.valid
       THEN /\ calls' = [calls EXCEPT ![c] =
                   Finished(@, ErrorResponse("ZodError", 0))]
            /\ UNCHANGED heap
       ELSE /\ heap' = [heap EXCEPT ![calls[c].obj].slideCount = @ + 1]
            /\ calls' = [calls EXCEPT ![c].pc = "ret",
                                      ![c].result = [slide |-> calls[c].i, url |-> body.url]]
    /\ UNCHANGED <<presentations, themeWriter, rng, now, ticks>>

\* The create_slide handler after "await createSlide": deck id, theme offer,
\* response.
CreateSlideReturn(c) ==
    /\ c \in 1..Len(calls)
    /\ calls[c].tool = "create_slide"
    /\ calls[c].pc = "ret"
    /\ LET addr == calls[c].obj
           presentation == storeDeckId(heap[addr], calls[c].result.url)
           first == isFirstSlide(presentation)
           after == IF first THEN [presentation EXCEPT !.themeOffered = TRUE]
                             ELSE presentation
       IN  /\ heap' = [heap EXCEPT ![addr] = after]
           /\ calls' = [calls EXCEPT ![c] =
                  Finished(@, ToolResponse(FALSE, "Slide created", 0,
                                           Some(after.presentationId), after.deckId,
                                           after.themeId, first, <<@.result>>))]
    /\ UNCHANGED <<presentations, themeWriter, rng, now, ticks>>

\* --------------------------------------------------- create_slide_carousel
\* The create_slide_carousel handler from its entry to the first await: with
\* no slide the loop body never runs and the handler returns at once.
CreateSlideCarouselCall(presentation_id, slides) ==
    /\ CanCall
    /\ LET args == slideInputParser(presentation_id, slides)
           call == NewCall("create_slide_carousel", args.presentation_id,
                           Len(slides), "")
       IN  IF ~args.ok
           THEN /\ calls' = Append(calls, Rejected("create_slide_carousel"))
                /\ UNCHANGED <<presentations, heap, rng>>
           ELSE LET got == getOrCreatePresentation(args.presentation_id)
                    presentation == got.heap[got.obj]
                    end == CarouselFinish(presentation, <<>>)
                IN  /\ presentations' = got.presentations
                    /\ rng' = got.rng
                    /\ IF Len(slides) = 0
                       THEN /\ heap' = [got.heap EXCEPT ![got.obj] = end.context]
                            /\ calls' = Append(calls,
                                   Finished([call EXCEPT !.obj = got.obj], end.out))
                       ELSE /\ heap' = got.heap
                            /\ calls' = Append(calls,
                                   [call EXCEPT !.obj = got.obj, !.i = 1, !.pc = "fetch",
                                       !.reqs = GenerateRequests(presentation,
                                                    SlidesToRequest(1, Len(slides)))])
    /\ UNCHANGED <<themeWriter, now, ticks>>

\* The loop body after "await createSlide": push the result, store the deck
\* id, then either call createSlide for the next slide (up to its fetch) or
\* leave the loop, offer the themes and return the response.
CreateSlideCarouselReturn(c) ==
    /\ c \in 1..Len(calls)
    /\ calls[c].tool = "create_slide_carousel"
    /\ calls[c].pc = "ret"
    /\ LET addr == calls[c].obj
           results == Append(calls[c].results, calls[c].result)
           presentation == storeDeckId(heap[addr], calls[c].result.url)
           n == calls[c].slides
           end == CarouselFinish(presentation, results)
       IN  IF calls[c].i < n
           THEN /\ heap' = [heap EXCEPT ![addr] = presentation]
                /\ calls' = [calls EXCEPT ![c].results = results,
                       ![c].i = @ + 1, ![c].pc = "fetch",
                       ![c].reqs = @ \o GenerateRequests(presentation,
                                            SlidesToRequest(calls[c].i + 1, n))]
           ELSE /\ heap' = [heap EXCEPT ![addr] = end.context]
                /\ calls' = [calls EXCEPT ![c] =
                       Finished([@ EXCEPT !.results = results], end.out)]
    /\ UNCHANGED <<presentations, themeWriter, rng, now, ticks>>

\* ------------------------------------------------------------ search_images
\* The search_images handler up to the await of fetch in searchImages.
SearchImagesCall(caption_ok) ==
    /\ CanCall
    /\ LET call == NewCall("search_images", None, 0, "")
       IN  calls' = Append(calls,
               IF ~caption_ok
               THEN Rejected("search_images")
               ELSE [call EXCEPT !.pc = "fetch",
                       !.reqs = <<[ endpoint |-> "search", slide |-> 0,
                                    deckId |-> None, themeId |-> "",
                                    userId |-> 0, conversationId |-> 0 ]>>])
    /\ UNCHANGED <<presentations, heap, themeWriter, rng, now, ticks>>

\* Variant: searchImages throws when the remote service finds nothing.
SearchImagesResponded_ThrowsOnEmpty(c, status, body) ==
    /\ c \in 1..Len(calls)
    /\ calls[c].tool = "search_images"
    /\ calls[c].pc = "fetch"
    /\ calls' = [calls EXCEPT ![c] =
           IF ~ResponseOk(status)
           THEN Finished(@,
                         ErrorResponse("Search failed with status", status))
           ELSE IF body = "invalid"
           THEN Finished(@, ErrorResponse("SyntaxError", 0))
           ELSE IF body # "images"
           THEN Finished(@, ErrorResponse("No images found", 0))
           ELSE [@ EXCEPT !.pc = "ret", !.i = 2]]
    /\ UNCHANGED <<presentations, heap, themeWriter, rng, now, ticks>>

\* searchImages from the answer of fetch to its return or throw: "Search
\* failed with status <status>" on a failure status; otherwise the parsed
\* body if it is an array and [] if it is not (i counts the images).
SearchImagesResponded(c, status, body) ==
    /\ c \in 1..Len(calls)
    /\ calls[c].tool = "search_images"
    /\ calls[c].pc = "fetch"
    /\ calls' = [calls EXCEPT ![c] =
           IF ~ResponseOk(status)
           THEN Finished(@,
                         ErrorResponse("Search failed with status", status))
           ELSE IF body = "invalid"
           THEN Finished(@, ErrorResponse("SyntaxError", 0))
           ELSE [@ EXCEPT !.pc = "ret", !.i = IF body = "images" THEN 2 ELSE 0]]
    /\ UNCHANGED <<presentations, heap, themeWriter, rng, now, ticks>>

\* The search_images handler after "await searchImages".
SearchImagesReturn(c) ==
    /\ c \in 1..Len(calls)
    /\ calls[c].tool = "search_images"
    /\ calls[c].pc = "ret"
    /\ calls' = [calls EXCEPT ![c] =
           Finished(@, ToolResponse(FALSE,
                        IF @.i = 0 THEN "No images found" ELSE "Found images",
                        0, None, None, None, FALSE, <<>>))]
    /\ UNCHANGED <<presentations, heap, themeWriter, rng, now, ticks>>

\* -------------------------------------------------------------- apply_theme
\* The apply_theme handler from its entry to a return or to the await of
\* fetch in applyTheme.
ApplyThemeCall(presentation_id, theme_id) ==
    /\ CanCall
    /\ LET call == NewCall("apply_theme", presentation_id, 0, theme_id)
           args == applyThemeInputParser(presentation_id, theme_id)
           got == presentationsGet(The(presentation_id))
           presentation == got.heap[got.obj]
       IN  IF ~args.ok
           THEN /\ calls' = Append(calls, Rejected("apply_theme"))
                /\ UNCHANGED <<presentations, heap, rng>>
           ELSE /\ presentations' = got.presentations
                /\ heap' = got.heap
                /\ rng' = got.rng
                /\ calls' = Append(calls,
                       IF ~got.found
                       THEN Finished(call, ErrorResponse("Presentation not found", 0))
                       ELSE IF ~deckReady(presentation)
                       THEN Finished([call EXCEPT !.obj = got.obj],
                                     ErrorResponse("No deck ID available", 0))
                       ELSE [call EXCEPT !.obj = got.obj, !.pc = "fetch",
                               !.reqs = <<RemoteRequest("apply-theme", 0,
                                            presentation.deckId, theme_id,
                                            presentation)>>])
    /\ UNCHANGED <<themeWriter, now, ticks>>

\* applyTheme from the answer of fetch to its return or throw.  On a failure
\* status it awaits response.text() and throws "Failed to apply theme:
\* <status>".  Otherwise it awaits response.json(), which throws if the body
\* is no JSON; then it sets presentationContext.themeId, and reads
\* responseData.slides, which throws a TypeError if the body is null.
ApplyThemeResponded(c, status, body) ==
    /\ c \in 1..Len(calls)
    /\ calls[c].tool = "apply_theme"
    /\ calls[c].pc = "fetch"
    /\ LET addr == calls[c].obj
           writes == ResponseOk(status) /\ body # "invalid"
       IN  /\ heap' = IF writes
                      THEN [heap EXCEPT ![addr].themeId = Some(calls[c].theme_id)]
                      ELSE heap
           /\ themeWriter' =
                  IF writes
                  THEN [ a \in DOMAIN themeWriter \cup {addr} |->
                           IF a = addr THEN c ELSE themeWriter[a] ]
                  ELSE themeWriter
    /\ calls' = [calls EXCEPT ![c] =
           IF ~ResponseOk(status)
           THEN Finished(@,
                         ErrorResponse("Failed to apply theme", status))
           ELSE IF body = "invalid"
           THEN Finished(@, ErrorResponse("SyntaxError", 0))
           ELSE IF body = "null"
           THEN Finished(@, ErrorResponse("TypeError", 0))
           ELSE [@ EXCEPT !.pc = "ret"]]
    /\ UNCHANGED <<presentations, rng, now, ticks>>

\* The apply_theme handler after "await applyTheme": the success response.
ApplyThemeReturn(c) ==
    /\ c \in 1..Len(calls)
    /\ calls[c].tool = "apply_theme"
    /\ calls[c].pc = "ret"
    /\ calls' = [calls EXCEPT ![c] =
           Finished(@, ToolResponse(FALSE, "Theme applied", 0, None, None,
                                    Some(@.theme_id), FALSE, <<>>))]
    /\ UNCHANGED <<presentations, heap, themeWriter, rng, now, ticks>>

\* -------------------------------------------------------- show_theme_picker
\* The whole show_theme_picker handler: it has no await.
ShowThemePickerCall(presentation_id) ==
    /\ CanCall
    /\ LET call == NewCall("show_theme_picker", presentation_id, 0, "")
           args == showThemePickerInputParser(presentation_id)
           got == presentationsGet(The(presentation_id))
           deckId == IF got.found /\ HasDeck(got.heap[got.obj].deckId)
                     THEN got.heap[got.obj].deckId ELSE None
       IN  IF ~args.ok
           THEN /\ calls' = Append(calls, Rejected("show_theme_picker"))
                /\ UNCHANGED <<presentations, heap, rng>>
           ELSE /\ presentations' = got.presentations
                /\ heap' = got.heap
                /\ rng' = got.rng
                /\ calls' = Append(calls,
                       Finished([call EXCEPT !.obj = got.obj],
                                ToolResponse(FALSE, "Choose a theme", 0, None,
                                             deckId, None, FALSE, <<>>)))
    /\ UNCHANGED <<themeWriter, now, ticks>>

\* ------------------------------------------------------------ unknown tool
\* Any other tool name: throw "Unknown tool", caught by the handler's catch.
UnknownToolCall ==
    /\ CanCall
    /\ calls' = Append(calls,
           Finished(NewCall("unknown_tool", None, 0, ""),
                    ErrorResponse("Unknown tool", 0)))
    /\ UNCHANGED <<presentations, heap, themeWriter, rng, now, ticks>>

\* ------------------------------------------------------ clock and cleanup
\* Time passes: exactly a retention window, or a millisecond more.
ClockSteps == {RETENTION_MS, RETENTION_MS + 1}

Tick(d) ==
    /\ ticks < MaxTicks
    /\ now' = now + d
    /\ ticks' = ticks + 1
    /\ UNCHANGED <<presentations, heap, themeWriter, rng, calls>>

\* The setInterval callback: delete every context last used before now - 24h.
Sweep ==
    /\ presentations' =
           [ id \in { k \in DOMAIN presentations :
                        ~IsStale(heap[presentations[k]], now) } |->
               presentations[id] ]
    /\ swept' = (\E k \in DOMAIN presentations :
                     IsStale(heap[presentations[k]], now))
    /\ UNCHANGED <<heap, themeWriter, rng, now, ticks, calls>>

\* A step of a tool handler or of the clock: it resets swept (only an
\* effective run of the cleanup timer sets it) and leaves the sessions alone.
ToolStep == swept' = FALSE /\ UNCHANGED sessionVars

Next ==
    \/ \E p \in PidInputs, ok \in BOOLEAN :
           CreateSlideCall(p, ok) /\ ToolStep
    \/ \E c \in 1..MaxCalls, st \in HttpStatuses, b \in GenerateBodies :
           CreateSlideResponded(c, st, b) /\ ToolStep
    \/ \E c \in 1..MaxCalls : CreateSlideReturn(c) /\ ToolStep
    \/ \E p \in PidInputs, sl \in SlidesInputs :
           CreateSlideCarouselCall(p, sl) /\ ToolStep
    \/ \E c \in 1..MaxCalls : CreateSlideCarouselReturn(c) /\ ToolStep
    \/ \E ok \in BOOLEAN : SearchImagesCall(ok) /\ ToolStep
    \/ \E c \in 1..MaxCalls, st \in HttpStatuses, b \in SearchBodies :
           SearchImagesResponded(c, st, b) /\ ToolStep
    \/ \E c \in 1..MaxCalls : SearchImagesReturn(c) /\ ToolStep
    \/ \E p \in PidInputs, t \in ThemeInputs :
           ApplyThemeCall(p, t) /\ ToolStep
    \/ \E c \in 1..MaxCalls, st \in HttpStatuses, b \in ApplyThemeBodies :
           ApplyThemeResponded(c, st, b) /\ ToolStep
    \/ \E c \in 1..MaxCalls : ApplyThemeReturn(c) /\ ToolStep
    \/ \E p \in PidInputs : ShowThemePickerCall(p) /\ ToolStep
    \/ UnknownToolCall /\ ToolStep
    \/ \E d \in ClockSteps : Tick(d) /\ ToolStep
    \/ Sweep /\ UNCHANGED sessionVars

Spec == Init /\ [][Next]_vars

\* ------------------------------------------------------ one call at a time
\* No handler is suspended: every call received has returned.
Quiet == \A c \in 1..Len(calls) : calls[c].pc = "done"

\* The server when the client sends a call only after the previous one has
\* returned; the clock and the cleanup timer run as before.
SeqNext ==
    \/ \E p \in PidInputs, ok \in BOOLEAN :
           Quiet /\ CreateSlideCall(p, ok) /\ ToolStep
    \/ \E c \in 1..MaxCalls, st \in HttpStatuses, b \in GenerateBodies :
           CreateSlideResponded(c, st, b) /\ ToolStep
    \/ \E c \in 1..MaxCalls : CreateSlideReturn(c) /\ ToolStep
    \/ \E p \in PidInputs, sl \in SlidesInputs :
           Quiet /\ CreateSlideCarouselCall(p, sl) /\ ToolStep
    \/ \E c \in 1..MaxCalls : CreateSlideCarouselReturn(c) /\ ToolStep
    \/ \E ok \in BOOLEAN : Quiet /\ SearchImagesCall(ok) /\ ToolStep
    \/ \E c \in 1..MaxCalls, st \in HttpStatuses, b \in SearchBodies :
           SearchImagesResponded(c, st, b) /\ ToolStep
    \/ \E c \in 1..MaxCalls : SearchImagesReturn(c) /\ ToolStep
    \/ \E p \in PidInputs, t \in ThemeInputs :
           Quiet /\ ApplyThemeCall(p, t) /\ ToolStep
    \/ \E c \in 1..MaxCalls, st \in HttpStatuses, b \in ApplyThemeBodies :
           ApplyThemeResponded(c, st, b) /\ ToolStep
    \/ \E c \in 1..MaxCalls : ApplyThemeReturn(c) /\ ToolStep
    \/ \E p \in PidInputs : Quiet /\ ShowThemePickerCall(p) /\ ToolStep
    \/ Quiet /\ UnknownToolCall /\ ToolStep
    \/ \E d \in ClockSteps : Tick(d) /\ ToolStep
    \/ Sweep /\ UNCHANGED sessionVars

SeqSpec == Init /\ [][SeqNext]_vars

\* ------------------------------------------------------------- sessions
\* Variant: the stream closes and the session stays in the map.
transportOnClose_KeepsSession(sid) ==
    /\ sid \in 1..Len(streams)
    /\ streams[sid].state \in {"connecting", "open"}
    /\ streams' = [streams EXCEPT ![sid].state = "closed"]
    /\ UNCHANGED <<presentations, heap, themeWriter, rng, now, ticks, calls,
                   sessions, posts>>

\* Variant: closing a stream also drops the contexts of the registry.
transportOnClose_DropsContexts(sid) ==
    /\ sid \in 1..Len(streams)
    /\ streams[sid].state \in {"connecting", "open"}
    /\ sessions' = [k \in DOMAIN sessions \ {sid} |-> sessions[k]]
    /\ streams' = [streams EXCEPT ![sid].state = "closed"]
    /\ presentations' = [id \in {} |-> 0]
    /\ UNCHANGED <<heap, themeWriter, rng, now, ticks, calls, posts>>

\* handleSseRequest up to "await server.connect(transport)": a new server
\* instance and a transport with a new session id, entered in the sessions
\* map.  Session ids and server instances are numbered in order of creation.
handleSseRequest ==
    /\ Len(streams) < MaxSessions
    /\ LET sessionId == Len(streams) + 1
           server == Len(streams) + 1
       IN  /\ sessions' = [k \in DOMAIN sessions \cup {sessionId} |->
                              IF k = sessionId THEN server ELSE sessions[k]]
           /\ streams' = Append(streams,
                                [state |-> "connecting", server |-> server])
    /\ UNCHANGED <<presentations, heap, themeWriter, rng, now, ticks, calls, posts>>

\* handleSseRequest after the await: server.connect resolved.
sseConnected(sid) ==
    /\ sid \in 1..Len(streams)
    /\ streams[sid].state = "connecting"
    /\ streams' = [streams EXCEPT ![sid].state = "open"]
    /\ UNCHANGED <<presentations, heap, themeWriter, rng, now, ticks, calls,
                   sessions, posts>>

\* handleSseRequest after the await: server.connect rejected; the catch
\* deletes the session and answers 500.
sseConnectFailed(sid) ==
    /\ sid \in 1..Len(streams)
    /\ streams[sid].state = "connecting"
    /\ sessions' = [k \in DOMAIN sessions \ {sid} |-> sessions[k]]
    /\ streams' = [streams EXCEPT ![sid].state = "failed"]
    /\ UNCHANGED <<presentations, heap, themeWriter, rng, now, ticks, calls, posts>>

\* transport.onclose: the stream has closed; the session is deleted (and the
\* server closed).
transportOnClose(sid) ==
    /\ sid \in 1..Len(streams)
    /\ streams[sid].state \in {"connecting", "open"}
    /\ sessions' = [k \in DOMAIN sessions \ {sid} |-> sessions[k]]
    /\ streams' = [streams EXCEPT ![sid].state = "closed"]
    /\ UNCHANGED <<presentations, heap, themeWriter, rng, now, ticks, calls, posts>>

\* The sessionId query parameter of a POST: missing, an id no transport was
\* given (0), or the id of a stream accepted so far.
SessionIdInputs == {None, Some(0)} \cup { Some(sid) : sid \in 1..Len(streams) }

\* The answer to a POST: its sessionId parameter, the HTTP status, the
\* server instance the message was handed to (0: none) and the tool call it
\* started (0: none).
PostAnswer(sessionId, status, server, call) ==
    [ sessionId |-> sessionId, status |-> status, server |-> server, call |-> call ]

CanPost == Len(posts) < MaxPosts

\* sessions.get(sessionId) finds a session.
sessionsHas(sessionId) ==
    IF sessionId = None THEN FALSE ELSE The(sessionId) \in DOMAIN sessions

\* handlePostMessage for a request it answers itself: 400 without sessionId,
\* 404 "Unknown session" if the sessions map has no such id.
postRefused(sessionId) ==
    /\ CanPost
    /\ ~sessionsHas(sessionId)
    /\ posts' = Append(posts,
           PostAnswer(sessionId, IF sessionId = None THEN 400 ELSE 404, 0, 0))
    /\ UNCHANGED <<presentations, heap, themeWriter, rng, now, ticks, calls,
                   sessions, streams>>

\* handlePostMessage for a session of the map when
\* session.transport.handlePostMessage throws: the catch answers 500.
postFailed(sessionId) ==
    /\ CanPost
    /\ sessionsHas(sessionId)
    /\ posts' = Append(posts, PostAnswer(sessionId, 500, 0, 0))
    /\ UNCHANGED <<presentations, heap, themeWriter, rng, now, ticks, calls,
                   sessions, streams>>

\* handlePostMessage for a session of the map: the transport accepts the
\* message (202) and hands it to the session's server, whose CallTool
\* handler runs a create_slide call up to its first await.
postCreateSlide(sessionId, presentation_id, slide_ok) ==
    /\ CanPost
    /\ sessionsHas(sessionId)
    /\ CreateSlideCall(presentation_id, slide_ok)
    /\ posts' = Append(posts,
           PostAnswer(sessionId, 202, sessions[The(sessionId)], Len(calls) + 1))
    /\ UNCHANGED <<sessions, streams>>

\* The server with its transport layer: streams open and close, messages
\* are posted, and the create_slide calls they start run to their end.
SessionNext ==
    \/ handleSseRequest /\ swept' = FALSE
    \/ \E sid \in 1..MaxSessions : sseConnected(sid) /\ swept' = FALSE
    \/ \E sid \in 1..MaxSessions : sseConnectFailed(sid) /\ swept' = FALSE
    \/ \E sid \in 1..MaxSessions : transportOnClose(sid) /\ swept' = FALSE
    \/ \E q \in SessionIdInputs : postRefused(q) /\ swept' = FALSE
    \/ \E q \in SessionIdInputs : postFailed(q) /\ swept' = FALSE
    \/ \E q \in SessionIdInputs, p \in PidInputs :
           postCreateSlide(q, p, TRUE) /\ swept' = FALSE
    \/ \E c \in 1..MaxCalls, st \in HttpStatuses :
           CreateSlideResponded(c, st, [valid |-> TRUE, url |-> UrlDeck1])
               /\ ToolStep
    \/ \E c \in 1..MaxCalls : CreateSlideReturn(c) /\ ToolStep

SessionSpec == Init /\ [][SessionNext]_vars

\* ------------------------------------------------- the cleanup timer, live
\* Time passes for as long as the registry holds a context that has not yet
\* aged past the retention window (later time changes nothing the cleanup
\* timer looks at).
TimePasses(d) ==
    /\ \E k \in DOMAIN presentations :
           heap[presentations[k]].lastUsed >= now - RETENTION_MS
    /\ now' = now + d
    /\ UNCHANGED <<presentations, heap, themeWriter, rng, ticks, calls>>

\* The server under create_slide and show_theme_picker traffic, with time
\* passing and the setInterval callback running.
LiveNext ==
    \/ \E p \in PidInputs : CreateSlideCall(p, TRUE) /\ ToolStep
    \/ \E c \in 1..MaxCalls, st \in HttpStatuses :
           CreateSlideResponded(c, st, [valid |-> TRUE, url |-> UrlDeck1])
               /\ ToolStep
    \/ \E c \in 1..MaxCalls : CreateSlideReturn(c) /\ ToolStep
    \/ \E p \in PidInputs : ShowThemePickerCall(p) /\ ToolStep
    \/ \E d \in ClockSteps : TimePasses(d) /\ ToolStep
    \/ Sweep /\ UNCHANGED sessionVars

\* The interval timer fires again and again (setInterval is never cleared)
\* and time does not stop; nothing is assumed about the clients.
LiveSpec ==
    /\ Init
    /\ [][LiveNext]_vars
    /\ WF_vars(\E d \in ClockSteps : TimePasses(d) /\ ToolStep)
    /\ WF_vars(Sweep /\ UNCHANGED sessionVars)

\* ================================================================= claims
SlideTools == {"create_slide", "create_slide_carousel"}

Addresses == 1..Len(heap)

CallIds == 1..Len(calls)

\* Call c has returned presentation id p to its caller, from the context at a.
Returned(c, p, a) ==
    /\ calls[c].tool \in SlideTools
    /\ calls[c].pc = "done"
    /\ ~calls[c].out.isError
    /\ calls[c].out.presentation_id = Some(p)
    /\ calls[c].obj = a

\* This step is the arrival of a slide-creating call that presents id p and
\* passes the parser.
PresentsToSlideTool(p) ==
    /\ Len(calls') = Len(calls) + 1
    /\ calls'[Len(calls')].tool \in SlideTools
    /\ calls'[Len(calls')].presentation_id = Some(p)
    /\ calls'[Len(calls')].obj # 0

\* The arriving call holds the context at a, whose slideCount and identity
\* are as they were.
ResolvesTo(a) ==
    /\ calls'[Len(calls')].obj = a
    /\ heap'[a].slideCount = heap[a].slideCount
    /\ heap'[a].conversationId = heap[a].conversationId
    /\ heap'[a].userId = heap[a].userId

\* C1 as stated: a slide-creating call that presents a presentation id
\* returned earlier by a slide-creating tool resolves to the context that
\* returned it, whatever calls and eviction sweeps happened in between.
C1_ResolvesAfterAnySweeps ==
    [][ \A c \in CallIds, a \in Addresses :
          LET p == heap[a].presentationId
          IN  Returned(c, p, a) /\ PresentsToSlideTool(p) => ResolvesTo(a) ]_vars

\* C1 as amended: a slide-creating call that presents a presentation id
\* returned earlier by a slide-creating tool resolves to the context that
\* returned it (same slideCount, conversationId and userId) provided that
\* context is still in the registry, that is, no sweep has evicted it.
C1_ResolvesWhileRegistered ==
    [][ \A c \in CallIds, a \in Addresses :
          LET p == heap[a].presentationId
          IN  Returned(c, p, a) /\ IsRegistered(a) /\ PresentsToSlideTool(p)
                  => ResolvesTo(a) ]_vars

\* A second slide-creating call has presented the id the first one returned
\* and has built its slide on the same context.
C1_Witness ==
    \E c1, c2 \in CallIds :
        /\ c1 < c2
        /\ Returned(c1, heap[calls[c1].obj].presentationId, calls[c1].obj)
        /\ calls[c2].tool \in SlideTools
        /\ calls[c2].presentation_id = calls[c1].out.presentation_id
        /\ calls[c2].obj = calls[c1].obj
        /\ calls[c2].pc = "done"
        /\ ~calls[c2].out.isError
        /\ heap[calls[c2].obj].slideCount = 2

\* What C2 asks of the step of a create_slide call: one context more, under
\* a generated id that was no key of the registry, held by the call; every
\* other key and every older context as before.
InsertsFreshContext ==
    LET addr == Len(heap) + 1
        id == heap'[addr].presentationId
    IN  /\ Len(heap') = addr
        /\ id \notin DOMAIN presentations
        /\ \A a \in Addresses : heap[a].presentationId # id
        /\ DOMAIN presentations' = DOMAIN presentations \cup {id}
        /\ presentations'[id] = addr
        /\ \A k \in DOMAIN presentations : presentations'[k] = presentations[k]
        /\ \A a \in Addresses : heap'[a] = heap[a]
        /\ heap'[addr] = NewContext(id, rng + 1, now)
        /\ calls'[Len(calls')].obj = addr

\* C2: every create_slide call (that passes the parser; rejected calls are
\* C12's) with an absent or empty presentation_id inserts a new context under
\* a newly generated id that was not a key of the registry, and returns,
\* replaces or modifies no existing context.
C2_EmptyTokenMintsFreshId ==
    [][ \A p \in {None, Some("")} :
          CreateSlideCall(p, TRUE) => InsertsFreshContext ]_vars

\* A create_slide call without token has created a context while another
\* context was in the registry.
C2_Witness ==
    \E c \in CallIds :
        /\ calls[c].tool = "create_slide"
        /\ calls[c].presentation_id = None
        /\ calls[c].obj >= 2
        /\ heap[calls[c].obj].presentationId \in DOMAIN presentations
        /\ Cardinality(DOMAIN presentations) >= 2

\* C3: once a context's deckId has a value it never changes, whatever view
\* URL later generations return and however the calls interleave.
C3_DeckIdSetOnce ==
    [][ \A a \in Addresses :
          HasDeck(heap[a].deckId) => heap'[a].deckId = heap[a].deckId ]_vars

\* A successful generation has returned a view URL with another deck id
\* than the one its context holds.
C3_Witness ==
    \E c \in CallIds :
        /\ calls[c].tool \in SlideTools
        /\ calls[c].pc = "done"
        /\ ~calls[c].out.isError
        /\ \E k \in 1..Len(calls[c].out.slides) :
              LET d == extractDeckIdFromUrl(calls[c].out.slides[k].url)
              IN  /\ d # None
                  /\ HasDeck(heap[calls[c].obj].deckId)
                  /\ d # heap[calls[c].obj].deckId

\* The arriving call has been answered at once with this error, without a
\* remote request, and the registry and every context are as before.
AnsweredWithoutEffect(text) ==
    /\ Len(calls') = Len(calls) + 1
    /\ calls'[Len(calls')].pc = "done"
    /\ calls'[Len(calls')].out.isError
    /\ calls'[Len(calls')].out.text = text
    /\ calls'[Len(calls')].reqs = <<>>
    /\ presentations' = presentations
    /\ heap' = heap

\* C4: apply_theme with a presentation_id that is no key of the registry
\* returns the error "Presentation not found", sends no remote request and
\* leaves the registry unchanged (no context is inserted for that id).
C4_ApplyThemeUnknownId ==
    [][ \A p \in PidInputs, t \in ThemeInputs \cap THEME_IDS :
          (/\ p # None
           /\ The(p) \notin DOMAIN presentations
           /\ ApplyThemeCall(p, t))
              => AnsweredWithoutEffect("Presentation not found") ]_vars

\* apply_theme was refused for an unknown id while the registry held a context.
C4_Witness ==
    \E c \in CallIds :
        /\ calls[c].tool = "apply_theme"
        /\ calls[c].out.text = "Presentation not found"
        /\ The(calls[c].presentation_id) \notin DOMAIN presentations
        /\ DOMAIN presentations # {}

\* C5: apply_theme for a context of the registry that has no deckId returns
\* the error "No deck ID available ... create at least one slide first",
\* sends no remote request and leaves themeId (and the context) unchanged.
C5_ApplyThemeNoDeck ==
    [][ \A p \in PidInputs, t \in ThemeInputs \cap THEME_IDS :
          (/\ p # None
           /\ The(p) \in DOMAIN presentations
           /\ ~HasDeck(heap[presentations[The(p)]].deckId)
           /\ ApplyThemeCall(p, t))
              => AnsweredWithoutEffect("No deck ID available") ]_vars

\* apply_theme was refused for a registered context without deck id.
C5_Witness ==
    \E c \in CallIds :
        /\ calls[c].tool = "apply_theme"
        /\ calls[c].out.text = "No deck ID available"
        /\ calls[c].obj # 0
        /\ IsRegistered(calls[c].obj)
        /\ ~HasDeck(heap[calls[c].obj].deckId)

\* The call whose applyTheme wrote the themeId of the context at a.
ThemeWriterOf(a) == calls[themeWriter[a]]

\* C6 as stated: a context's themeId is absent, or it is the theme requested
\* by the latest apply_theme that set it and that call is a successful one
\* (it does not end in an error response); and an apply_theme call that ends
\* with a non-success remote status leaves themeId as it was.
C6_ThemeIdFromSuccessfulApply ==
    /\ [](\A a \in Addresses :
            \/ heap[a].themeId = None
            \/ /\ a \in DOMAIN themeWriter
               /\ heap[a].themeId = Some(ThemeWriterOf(a).theme_id)
               /\ ThemeWriterOf(a).pc = "done" => ~ThemeWriterOf(a).out.isError)
    /\ [][ \A c \in CallIds :
             (/\ calls[c].tool = "apply_theme"
              /\ calls[c].pc = "fetch"
              /\ calls'[c].out.text = "Failed to apply theme")
                 => heap'[calls[c].obj].themeId = heap[calls[c].obj].themeId ]_vars

\* The successful slide-creating responses built on the context at a that
\* carry theme_options.
OffersOn(a) ==
    { c \in CallIds : /\ calls[c].tool \in SlideTools
                      /\ calls[c].obj = a
                      /\ calls[c].out.theme_options }

\* C7: for every context at most one response of create_slide and
\* create_slide_carousel carries theme_options, a response that carries them
\* has set themeOffered, and themeOffered never goes back from true to false.
C7_ThemeOfferedOnce ==
    /\ [](\A a \in Addresses :
            /\ Cardinality(OffersOn(a)) <= 1
            /\ OffersOn(a) # {} => heap[a].themeOffered)
    /\ [][ \A a \in Addresses :
             heap[a].themeOffered => heap'[a].themeOffered ]_vars

\* Two slide-creating calls have succeeded on one context, and one of the
\* two responses carries theme_options.
C7_Witness ==
    \E c1, c2 \in CallIds :
        /\ c1 # c2
        /\ calls[c1].obj = calls[c2].obj
        /\ \A c \in {c1, c2} : /\ calls[c].tool \in SlideTools
                                /\ calls[c].pc = "done"
                                /\ ~calls[c].out.isError
        /\ calls[c1].out.theme_options
        /\ ~calls[c2].out.theme_options

\* Call c is a create_slide call that has succeeded.
SlideCreated(c) ==
    /\ calls[c].tool = "create_slide"
    /\ calls[c].pc = "done"
    /\ ~calls[c].out.isError

\* Call c + 1 is a create_slide call that presented the id call c returned,
\* found the context of call c in the registry, and has succeeded.
FollowsUp(c) ==
    /\ c + 1 \in CallIds
    /\ SlideCreated(c + 1)
    /\ calls[c + 1].presentation_id = calls[c].out.presentation_id
    /\ calls[c + 1].obj = calls[c].obj

\* C8: with one call at a time, a first create_slide call without
\* presentation_id that succeeds returns the id of a new context, leaves
\* slideCount at 1 and carries theme_options; a following create_slide call
\* that presents the returned id (to a registry that still holds the context)
\* and succeeds returns the same id, leaves slideCount at 2 and carries no
\* theme_options.
C8_FirstSlideThenSecond ==
    \A c \in CallIds :
        SlideCreated(c) /\ calls[c].presentation_id = None =>
            /\ calls[c].out.presentation_id =
                   Some(heap[calls[c].obj].presentationId)
            /\ \A b \in 1..(c - 1) : calls[b].obj # calls[c].obj
            /\ calls[c].out.theme_options
            /\ Len(calls) = c => heap[calls[c].obj].slideCount = 1
            /\ FollowsUp(c) /\ Len(calls) = c + 1 =>
                   /\ calls[c + 1].out.presentation_id =
                          calls[c].out.presentation_id
                   /\ heap[calls[c].obj].slideCount = 2
                   /\ ~calls[c + 1].out.theme_options

\* The two calls of the scenario have both succeeded.
C8_Witness ==
    /\ Len(calls) = 2
    /\ SlideCreated(1)
    /\ calls[1].presentation_id = None
    /\ FollowsUp(1)

\* C9: a create_slide_carousel call sends its generate requests in the order
\* of the slides and one at a time: the request for a slide is sent only
\* after the responses for all slides before it have been received.
C9_CarouselOneAtATime ==
    \A c \in CallIds :
        calls[c].tool = "create_slide_carousel" =>
            /\ \A k \in 1..Len(calls[c].reqs) :
                  /\ calls[c].reqs[k].endpoint = "generate"
                  /\ calls[c].reqs[k].slide = k
            /\ \A k \in 1..Len(calls[c].results) : calls[c].results[k].slide = k
            /\ Len(calls[c].reqs) <= calls[c].slides
            /\ Len(calls[c].reqs) <=
                   Len(calls[c].results) + (IF calls[c].pc = "done" /\ ~calls[c].out.isError
                                           THEN 0 ELSE 1)
            /\ calls[c].pc = "ret" => calls[c].result.slide = Len(calls[c].reqs)

\* A carousel call of two slides has received both responses.
C9_Witness ==
    \E c \in CallIds :
        /\ calls[c].tool = "create_slide_carousel"
        /\ calls[c].pc = "done"
        /\ ~calls[c].out.isError
        /\ Len(calls[c].reqs) = 2
        /\ Len(calls[c].results) = 2

\* The ids of the registry whose context was last used more than 24 hours
\* before the clock value.
OlderThanADay == { k \in DOMAIN presentations :
                     heap[presentations[k]].lastUsed < now - 24 * 60 * 60 * 1000 }

\* C10: a run of the cleanup timer removes from the registry exactly the
\* contexts whose lastUsed is more than 24 hours before the current time (a
\* context last used exactly 24 hours ago stays) and changes no other.
C10_SweepRemovesExactlyStale ==
    [][ Sweep =>
          /\ DOMAIN presentations' = DOMAIN presentations \ OlderThanADay
          /\ \A k \in DOMAIN presentations' : presentations'[k] = presentations[k]
          /\ heap' = heap ]_vars

\* The cleanup timer has just removed a context and kept a younger one.
C10_Witness ==
    /\ swept
    /\ \E a \in Addresses : ~IsRegistered(a) /\ heap[a].lastUsed < now - RETENTION_MS
    /\ \E k \in DOMAIN presentations : heap[presentations[k]].lastUsed >= now - RETENTION_MS

\* The call at index c has ended in this step with an error response.
ErrorReturned(c) ==
    /\ calls'[c].pc = "done"
    /\ calls'[c].out.returned
    /\ calls'[c].out.isError
    /\ calls'[c].out.text # ""

\* Slide lists with an element that fails SlideSchema.
InvalidSlides == { sl \in SlidesInputs : \E k \in 1..Len(sl) : ~sl[k] }

\* C11: every call that has ended has returned a response with a text, and
\* every step in which a call fails (arguments rejected by the parser,
\* unknown tool name, remote failure status, malformed remote body) ends the
\* call with a response flagged isError: no exception leaves the handler.
C11_FailuresBecomeErrorResponses ==
    /\ [](\A c \in CallIds :
            /\ calls[c].out.returned <=> calls[c].pc = "done"
            /\ calls[c].pc = "done" => calls[c].out.text # "")
    /\ [][ /\ \A p \in PidInputs :
               CreateSlideCall(p, FALSE) => ErrorReturned(Len(calls'))
           /\ \A p \in PidInputs, sl \in InvalidSlides :
               CreateSlideCarouselCall(p, sl) => ErrorReturned(Len(calls'))
           /\ SearchImagesCall(FALSE) => ErrorReturned(Len(calls'))
           /\ \A p \in PidInputs, t \in ThemeInputs :
               ~applyThemeInputParser(p, t).ok /\ ApplyThemeCall(p, t)
                   => ErrorReturned(Len(calls'))
           /\ ShowThemePickerCall(None) => ErrorReturned(Len(calls'))
           /\ UnknownToolCall => ErrorReturned(Len(calls'))
           /\ \A c \in CallIds, st \in HttpStatuses, b \in GenerateBodies :
               (~ResponseOk(st) \/ ~b.valid) /\ CreateSlideResponded(c, st, b)
                   => ErrorReturned(c)
           /\ \A c \in CallIds, st \in HttpStatuses, b \in SearchBodies :
               (~ResponseOk(st) \/ b = "invalid") /\ SearchImagesResponded(c, st, b)
                   => ErrorReturned(c)
           /\ \A c \in CallIds, st \in HttpStatuses, b \in ApplyThemeBodies :
               (~ResponseOk(st) \/ b \in {"invalid", "null"})
                   /\ ApplyThemeResponded(c, st, b)
                   => ErrorReturned(c) ]_vars

\* An unknown tool and a malformed answer of the remote service have both
\* ended in an error response.
C11_Witness ==
    \E c1, c2 \in CallIds :
        /\ calls[c1].out.isError /\ calls[c1].out.text = "Unknown tool"
        /\ calls[c2].out.isError /\ calls[c2].out.text = "ZodError"
        /\ calls[c2].reqs # <<>>

\* The arriving call was turned away with nothing touched: no context
\* created or refreshed, no remote request, no random value drawn.
RejectedUntouched ==
    /\ ErrorReturned(Len(calls'))
    /\ calls'[Len(calls')].reqs = <<>>
    /\ calls'[Len(calls')].obj = 0
    /\ presentations' = presentations
    /\ heap' = heap
    /\ rng' = rng

\* C12: a tool call whose arguments fail schema validation (for
\* create_slide_carousel: any invalid element of slides_data) is rejected
\* before the registry or the remote service is touched: no context is
\* created or refreshed, no request is sent, the registry is as before.
C12_RejectedBeforeAnyEffect ==
    [][ /\ \A p \in PidInputs : CreateSlideCall(p, FALSE) => RejectedUntouched
        /\ \A p \in PidInputs, sl \in InvalidSlides :
               CreateSlideCarouselCall(p, sl) => RejectedUntouched
        /\ SearchImagesCall(FALSE) => RejectedUntouched
        /\ \A p \in PidInputs, t \in ThemeInputs :
               ~applyThemeInputParser(p, t).ok /\ ApplyThemeCall(p, t)
                   => RejectedUntouched
        /\ ShowThemePickerCall(None) => RejectedUntouched ]_vars

\* A carousel call was rejected while the registry held a context.
C12_Witness ==
    \E c \in CallIds :
        /\ calls[c].tool = "create_slide_carousel"
        /\ calls[c].out.text = "ZodError"
        /\ calls[c].reqs = <<>>
        /\ c > 1
        /\ DOMAIN presentations # {}

\* C13 as stated: every tool call that passes the parser and presents the id
\* of a context of the registry (create_slide, create_slide_carousel,
\* apply_theme, show_theme_picker) sets that context's lastUsed to the time
\* of the call.
C13_EveryAccessRefreshesLastUsed ==
    [][ \A p \in DOMAIN presentations :
          (/\ Len(calls') = Len(calls) + 1
           /\ calls'[Len(calls')].presentation_id = Some(p))
              => heap'[presentations[p]].lastUsed = now ]_vars

\* The number of generate requests of call c that the remote service has
\* answered with a success status and a body that parses.
Generated(c) ==
    IF calls[c].tool = "create_slide"
    THEN IF calls[c].pc = "ret" \/ (calls[c].pc = "done" /\ ~calls[c].out.isError)
         THEN 1 ELSE 0
    ELSE IF calls[c].tool = "create_slide_carousel"
    THEN Len(calls[c].results) + (IF calls[c].pc = "ret" THEN 1 ELSE 0)
    ELSE 0

\* The successful generations made for the context at a, one pair per
\* generation.
GenerationsFor(a) ==
    { g \in CallIds \X (1..MaxSlides) :
        calls[g[1]].obj = a /\ g[2] <= Generated(g[1]) }

\* C14: a context's slideCount is the number of remote generations made for
\* it that succeeded: 0 at creation, one more per successful generation,
\* unchanged by a generation that fails and by search_images, apply_theme
\* and show_theme_picker.
C14_SlideCountCountsSuccesses ==
    \A a \in Addresses : heap[a].slideCount = Cardinality(GenerationsFor(a))

\* A context has a successful generation and a failed one, and a call of
\* another tool has been made.
C14_Witness ==
    \E a \in Addresses, c \in CallIds :
        /\ heap[a].slideCount >= 1
        /\ calls[c].obj = a
        /\ calls[c].tool = "create_slide_carousel"
        /\ calls[c].out.isError
        /\ Len(calls[c].reqs) = 2

\* This step is the handler of call c taking the result of a successful
\* generation (the code after "await createSlide").
TakesGeneration(c) ==
    /\ calls[c].tool \in SlideTools
    /\ calls[c].pc = "ret"
    /\ calls'[c] # calls[c]

\* C15 as stated: the first successful generation for a context sets its
\* deckId, to the deck identifier parsed from that response's view URL.
C15_FirstGenerationSetsDeckId ==
    [][ \A c \in CallIds :
          TakesGeneration(c) /\ heap[calls[c].obj].slideCount = 1 =>
              /\ HasDeck(heap'[calls[c].obj].deckId)
              /\ heap'[calls[c].obj].deckId =
                     extractDeckIdFromUrl(calls[c].result.url) ]_vars

\* C15 as amended: as long as a context has no deckId, a successful
\* generation sets it to the deck identifier in that response's view URL
\* ("/view/" followed by letters and digits, up to the first other
\* character), and leaves it absent if the URL contains none; so deckId is
\* set by the first successful generation whose URL carries an identifier.
C15_GenerationWithDeckUrlSetsDeckId ==
    [][ \A c \in CallIds :
          TakesGeneration(c) /\ ~HasDeck(heap[calls[c].obj].deckId) =>
              LET url == calls[c].result.url
                  deckId == heap'[calls[c].obj].deckId
              IN  /\ deckId = extractDeckIdFromUrl(url)
                  /\ url = UrlDeck1 => deckId = Some(<<"d", "1">>)
                  /\ url = UrlDeck2 => deckId = Some(<<"d", "2">>)
                  /\ url = UrlNoDeck => deckId = None ]_vars

\* A context's first generation returned a URL without deck identifier and
\* a later one set deckId from a URL with a tail after the identifier.
C15_Witness ==
    \E c \in CallIds :
        /\ calls[c].tool = "create_slide_carousel"
        /\ calls[c].pc = "done"
        /\ ~calls[c].out.isError
        /\ Len(calls[c].results) = 2
        /\ calls[c].results[1].url = UrlNoDeck
        /\ calls[c].results[2].url = UrlDeck2
        /\ heap[calls[c].obj].slideCount = 2
        /\ heap[calls[c].obj].deckId = Some(<<"d", "2">>)

\* Ids a client may supply that are not empty.
SuppliedIds == { The(p) : p \in PidInputs \ {None, Some("")} }

\* The arriving slide-creating call holds a new context registered under
\* the supplied id x, with counters at zero, fields absent and an identity
\* no older context has.  themeOffered is false at creation; a carousel
\* call without slides offers the themes before it returns, in the same
\* stretch of code.
CreatesUnder(x, slides) ==
    LET addr == Len(heap) + 1
        context == heap'[addr]
    IN  /\ Len(heap') = addr
        /\ calls'[Len(calls')].obj = addr
        /\ DOMAIN presentations' = DOMAIN presentations \cup {x}
        /\ x \in DOMAIN presentations' /\ presentations'[x] = addr
        /\ \A k \in DOMAIN presentations : presentations'[k] = presentations[k]
        /\ \A a \in Addresses : heap'[a] = heap[a]
        /\ context.presentationId = x
        /\ context.slideCount = 0
        /\ context.deckId = None
        /\ context.themeId = None
        /\ context.themeOffered = (slides = 0)
        /\ context.createdAt = now /\ context.lastUsed = now
        /\ context.conversationId # context.userId
        /\ \A a \in Addresses :
              {context.conversationId, context.userId}
                  \cap {heap[a].conversationId, heap[a].userId} = {}

\* C16: create_slide or create_slide_carousel called (with valid slides)
\* with a non-empty presentation_id that is no key of the registry creates a
\* new context under exactly that id (slideCount 0, deckId and themeId
\* absent, themeOffered false, new conversationId and userId), and the
\* response of a call that succeeds carries the id the call presented.
C16_UnknownIdBecomesKey ==
    /\ [][ \A x \in SuppliedIds \ DOMAIN presentations :
             /\ CreateSlideCall(Some(x), TRUE) => CreatesUnder(x, 1)
             /\ \A sl \in SlidesInputs \ InvalidSlides :
                   CreateSlideCarouselCall(Some(x), sl) => CreatesUnder(x, Len(sl)) ]_vars
    /\ [](\A c \in CallIds :
            (/\ calls[c].tool \in SlideTools
             /\ calls[c].pc = "done"
             /\ ~calls[c].out.isError
             /\ calls[c].presentation_id # None)
                => calls[c].out.presentation_id = calls[c].presentation_id)

\* A create_slide call with an id the server never generated has succeeded
\* on a context registered under that id.
C16_Witness ==
    \E c \in CallIds :
        /\ SlideCreated(c)
        /\ calls[c].presentation_id = Some(FabricatedToken)
        /\ calls[c].out.presentation_id = Some(FabricatedToken)
        /\ heap[calls[c].obj].presentationId = FabricatedToken
        /\ FabricatedToken \in DOMAIN presentations
        /\ presentations[FabricatedToken] = calls[c].obj

\* C17: a context's conversationId and userId never change after creation,
\* and every generate and apply-theme request sent for a context carries
\* exactly that pair in its identity headers.
C17_IdentityStableAndForwarded ==
    /\ [][ \A a \in Addresses :
             /\ heap'[a].conversationId = heap[a].conversationId
             /\ heap'[a].userId = heap[a].userId ]_vars
    /\ [](\A c \in CallIds : \A k \in 1..Len(calls[c].reqs) :
            calls[c].reqs[k].endpoint \in {"generate", "apply-theme"} =>
                /\ calls[c].obj \in Addresses
                /\ calls[c].reqs[k].conversationId =
                       heap[calls[c].obj].conversationId
                /\ calls[c].reqs[k].userId = heap[calls[c].obj].userId)

\* A generate request and a later apply-theme request were sent for one
\* context while another context exists.
C17_Witness ==
    \E c1, c2 \in CallIds :
        /\ calls[c1].tool = "create_slide" /\ calls[c1].reqs # <<>>
        /\ calls[c2].tool = "apply_theme" /\ calls[c2].reqs # <<>>
        /\ calls[c1].obj = calls[c2].obj
        /\ calls[c1].reqs[1].userId = calls[c2].reqs[1].userId

\* C18: the registry holds at most one context per presentationId, the
\* context stored under key k has presentationId k, and a context's
\* presentationId never changes.
C18_KeysMatchPresentationIds ==
    /\ [](/\ \A k \in DOMAIN presentations :
               /\ presentations[k] \in Addresses
               /\ heap[presentations[k]].presentationId = k
           /\ \A a, b \in Addresses :
               (/\ IsRegistered(a) /\ IsRegistered(b)
                /\ heap[a].presentationId = heap[b].presentationId) => a = b)
    /\ [][ \A a \in Addresses :
             heap'[a].presentationId = heap[a].presentationId ]_vars

\* An evicted context and its successor carry the same presentationId, and
\* only the successor is in the registry.
C18_Witness ==
    \E a, b \in Addresses :
        /\ a # b
        /\ heap[a].presentationId = heap[b].presentationId
        /\ ~IsRegistered(a)
        /\ IsRegistered(b)

\* The deck reference show_theme_picker returns for id x: the deckId of the
\* context registered under x, null if there is none.
DeckReference(x) ==
    IF x \in DOMAIN presentations /\ HasDeck(heap[presentations[x]].deckId)
    THEN heap[presentations[x]].deckId
    ELSE None

\* C19: show_theme_picker changes nothing: for a known or unknown
\* presentation_id it creates no context, modifies no field of any context,
\* sends no remote request, and returns (never as an error) the context's
\* deckId if the context exists and a null deck reference otherwise.
C19_ShowThemePickerReadOnly ==
    [][ \A p \in PidInputs \ {None} :
          ShowThemePickerCall(p) =>
              /\ presentations' = presentations
              /\ heap' = heap
              /\ rng' = rng
              /\ calls'[Len(calls')].pc = "done"
              /\ calls'[Len(calls')].reqs = <<>>
              /\ calls'[Len(calls')].out.returned
              /\ ~calls'[Len(calls')].out.isError
              /\ calls'[Len(calls')].out.deck_id = DeckReference(The(p)) ]_vars

\* show_theme_picker has returned the deck id of a registered context.
C19_Witness ==
    \E c \in CallIds :
        /\ calls[c].tool = "show_theme_picker"
        /\ calls[c].pc = "done"
        /\ calls[c].out.deck_id # None
        /\ calls[c].out.deck_id = DeckReference(The(calls[c].presentation_id))

\* C20: search_images whose remote call succeeds with no result returns a
\* response that is not an error (a "no images found" message), and no step
\* of search_images, whatever its outcome, touches the registry or a context
\* or sends a context's identity.
C20_EmptySearchIsNoError ==
    /\ [][ \A c \in CallIds :
             /\ \A st \in HttpStatuses :
                   ResponseOk(st) /\ SearchImagesResponded(c, st, "empty") =>
                       calls'[c].pc = "ret" /\ calls'[c].i = 0
             /\ SearchImagesReturn(c) /\ calls[c].i = 0 =>
                   /\ calls'[c].pc = "done"
                   /\ calls'[c].out.returned
                   /\ ~calls'[c].out.isError
                   /\ calls'[c].out.text = "No images found"
             /\ (calls[c].tool = "search_images" /\ calls'[c] # calls[c]) =>
                   presentations' = presentations /\ heap' = heap /\ rng' = rng ]_vars
    /\ [][ (/\ Len(calls') = Len(calls) + 1
            /\ calls'[Len(calls')].tool = "search_images")
               => presentations' = presentations /\ heap' = heap /\ rng' = rng ]_vars
    /\ [](\A c \in CallIds :
            calls[c].tool = "search_images" =>
                /\ calls[c].obj = 0
                /\ \A k \in 1..Len(calls[c].reqs) :
                      /\ calls[c].reqs[k].endpoint = "search"
                      /\ calls[c].reqs[k].userId = 0
                      /\ calls[c].reqs[k].conversationId = 0)

\* A search that found nothing has returned its message while the registry
\* held a context.
C20_Witness ==
    \E c \in CallIds :
        /\ calls[c].tool = "search_images"
        /\ calls[c].pc = "done"
        /\ ~calls[c].out.isError
        /\ calls[c].out.text = "No images found"
        /\ DOMAIN presentations # {}

\* The streams that are neither closed nor failed.
LiveStreams ==
    { sid \in 1..Len(streams) : streams[sid].state \in {"connecting", "open"} }

\* This step answers a POST.
AnswersPost == Len(posts') = Len(posts) + 1

\* The answer given in this step.
NewAnswer == posts'[Len(posts')]

\* C21: a POST is handed to a protocol handler only if its sessionId names a
\* session in the sessions map, and then to the server instance created for
\* that session's stream; the map holds exactly the streams that have not
\* closed, and a POST with the id of a closed stream is answered 404 and
\* starts no handler.
C21_PostsRoutedBySession ==
    /\ [](/\ DOMAIN sessions = LiveStreams
           /\ \A live \in DOMAIN sessions : sessions[live] = streams[live].server
           /\ \A one, other \in 1..Len(streams) :
                 streams[one].server = streams[other].server => one = other)
    /\ [][ /\ Len(calls') > Len(calls) => AnswersPost /\ NewAnswer.call = Len(calls')
           /\ AnswersPost =>
                 /\ (NewAnswer.server # 0 \/ NewAnswer.call # 0) =>
                       /\ NewAnswer.sessionId # None
                       /\ The(NewAnswer.sessionId) \in DOMAIN sessions
                       /\ NewAnswer.server = streams[The(NewAnswer.sessionId)].server
                       /\ NewAnswer.status = 202
                 /\ \A gone \in 1..Len(streams) \ LiveStreams :
                       NewAnswer.sessionId = Some(gone) =>
                           /\ NewAnswer.status = 404
                           /\ NewAnswer.server = 0
                           /\ calls' = calls ]_vars

\* A POST was handed to the server of a session, the stream closed, and a
\* later POST with the same sessionId was answered 404.
C21_Witness ==
    \E i, j \in 1..Len(posts) :
        /\ i < j
        /\ posts[i].sessionId = posts[j].sessionId
        /\ posts[i].status = 202 /\ posts[i].server # 0
        /\ posts[j].status = 404 /\ posts[j].server = 0
        /\ streams[The(posts[i].sessionId)].state = "closed"

\* C22: the registry is shared by all sessions and does not depend on their
\* lifetime: a presentation id returned through one session resolves, from
\* a call posted to any session, to the same context as long as it is in
\* the registry, and no step that opens, connects or closes a session adds,
\* removes or modifies a context.
C22_RegistrySharedAcrossSessions ==
    /\ [][ (sessions' # sessions \/ streams' # streams) =>
               presentations' = presentations /\ heap' = heap ]_vars
    /\ [][ AnswersPost /\ NewAnswer.call # 0 =>
             \A i \in 1..Len(posts), a \in Addresses :
                 LET p == heap[a].presentationId
                 IN  (/\ posts[i].call # 0
                      /\ Returned(posts[i].call, p, a)
                      /\ IsRegistered(a)
                      /\ calls'[NewAnswer.call].presentation_id = Some(p))
                         => /\ calls'[NewAnswer.call].obj = a
                            /\ heap'[a].slideCount = heap[a].slideCount ]_vars

\* A context created through one session, since closed, has been used by a
\* call posted to another session.
C22_Witness ==
    \E i, j \in 1..Len(posts) :
        /\ i < j
        /\ posts[i].server # 0 /\ posts[j].server # 0
        /\ posts[i].server # posts[j].server
        /\ streams[The(posts[i].sessionId)].state = "closed"
        /\ Returned(posts[i].call, heap[calls[posts[i].call].obj].presentationId,
                    calls[posts[i].call].obj)
        /\ calls[posts[j].call].obj = calls[posts[i].call].obj
        /\ calls[posts[j].call].presentation_id = calls[posts[i].call].out.presentation_id
        /\ heap[calls[posts[j].call].obj].slideCount = 2

\* C23: when the remote service answers a generate, search or apply-theme
\* request with a failure status, the error response of the tool carries
\* the HTTP status and the raw body of that answer.
C23_RemoteFailureCarriesStatusAndBody ==
    [][ \A c \in 1..MaxCalls, st \in HttpStatuses \ {200} :
            /\ \A b \in GenerateBodies :
                   CreateSlideResponded(c, st, b) =>
                       /\ calls'[c].out.returned /\ calls'[c].out.isError
                       /\ calls'[c].out.status = st
                       /\ calls'[c].out.body = Some(b)
            /\ \A b \in SearchBodies :
                   SearchImagesResponded(c, st, b) =>
                       /\ calls'[c].out.returned /\ calls'[c].out.isError
                       /\ calls'[c].out.status = st
                       /\ calls'[c].out.body = Some(b)
            /\ \A b \in ApplyThemeBodies :
                   ApplyThemeResponded(c, st, b) =>
                       /\ calls'[c].out.returned /\ calls'[c].out.isError
                       /\ calls'[c].out.status = st
                       /\ calls'[c].out.body = Some(b) ]_vars

\* The times a context can have been last used at.
LiveTimes ==
    { i * RETENTION_MS + j : i \in 0..(2 * MaxCalls), j \in 0..(2 * MaxCalls) }

\* The context at a is in the registry and was last used at t.
RegisteredSince(a, t) ==
    IF a \in Addresses THEN IsRegistered(a) /\ heap[a].lastUsed = t ELSE FALSE

\* The context at a is out of the registry, or was used after t.
EvictedOrUsedSince(a, t) ==
    IF a \in Addresses THEN ~IsRegistered(a) \/ heap[a].lastUsed # t ELSE FALSE

\* C24: with the cleanup timer firing again and again, a context in the
\* registry is eventually deleted or presented again to a slide-creating
\* tool (which refreshes its lastUsed), whatever happens to other contexts;
\* and the run of the timer that finds it older than 24 hours deletes it.
C24_UnusedContextEventuallyEvicted ==
    /\ [](now \in LiveTimes)
    /\ [][ Sweep => \A a \in Addresses :
                       (IsRegistered(a) /\ heap[a].lastUsed < now - RETENTION_MS)
                           => heap[a].presentationId \notin DOMAIN presentations' ]_vars
    /\ \A a \in 1..MaxCalls, t \in LiveTimes :
           RegisteredSince(a, t) ~> EvictedOrUsedSince(a, t)

\* A context was left alone while another was created later, and the
\* cleanup timer has just deleted the first and kept the second.
C24_Witness ==
    \E a, b \in Addresses :
        /\ ~IsRegistered(a)
        /\ IsRegistered(b)
        /\ heap[a].lastUsed < heap[b].lastUsed
        /\ heap[a].lastUsed < now - RETENTION_MS
        /\ swept

\* The calls that hold the context at a.
CallsOn(a) == { c \in CallIds : calls[c].obj = a }

\* The calls that returned a success response.
Succeeded == { c \in CallIds : calls[c].out.returned /\ ~calls[c].out.isError }

\* C25: when create_slide calls, concurrent or not, are the only calls on a
\* context and no theme has been applied to it, then once all of them have
\* returned and at least one has succeeded, exactly one success response
\* carries theme_options.
C25_ConcurrentCallsOfferExactlyOnce ==
    \A a \in Addresses :
        (/\ \A c \in CallsOn(a) :
                calls[c].tool = "create_slide" /\ calls[c].pc = "done"
         /\ CallsOn(a) \cap Succeeded # {}
         /\ heap[a].themeId = None)
            => Cardinality({ c \in CallsOn(a) \cap Succeeded :
                               calls[c].out.theme_options }) = 1

\* The calls whose generate request is answered with success in this step.
SucceedsNow(a) ==
    { c \in CallIds :
        /\ calls[c].obj = a
        /\ calls[c].tool \in SlideTools
        /\ calls[c].pc = "fetch"
        /\ calls'[c].pc = "ret" }

\* C26: no update of slideCount is lost, however the create_slide and
\* create_slide_carousel calls on a context interleave at their suspension
\* points: every step adds to slideCount exactly the number of generations
\* that succeed in it and nothing ever lowers it, so that once every call
\* on the context has returned slideCount is the total of their successful
\* generations.
C26_NoLostSlideCountUpdate ==
    /\ [][ \A a \in Addresses :
             heap'[a].slideCount =
                 heap[a].slideCount + Cardinality(SucceedsNow(a)) ]_vars
    /\ [](\A a \in Addresses :
             (\A c \in CallsOn(a) : calls[c].pc = "done") =>
                 heap[a].slideCount =
                     Cardinality({ g \in CallsOn(a) \X (1..MaxSlides) :
                                     /\ calls[g[1]].tool \in SlideTools
                                     /\ g[2] <= Len(calls[g[1]].reqs)
                                     /\ \/ g[2] < Len(calls[g[1]].reqs)
                                        \/ ~calls[g[1]].out.isError }))

\* A create_slide call and a create_slide_carousel call on the same context
\* have both had a generation succeed and neither has resumed yet.
C26_Witness ==
    \E a \in Addresses, c1, c2 \in CallIds :
        /\ calls[c1].obj = a /\ calls[c2].obj = a
        /\ calls[c1].tool = "create_slide" /\ calls[c1].pc = "ret"
        /\ calls[c2].tool = "create_slide_carousel" /\ calls[c2].pc = "ret"
        /\ calls[c2].i = 2
        /\ heap[a].slideCount = 3

\* C27: for every context in the registry, a themeId implies a deckId and a
\* deckId implies slideCount >= 1.
C27_ThemeNeedsDeckNeedsSlide ==
    \A a \in Addresses :
        IsRegistered(a) =>
            /\ heap[a].themeId # None => HasDeck(heap[a].deckId)
            /\ HasDeck(heap[a].deckId) => heap[a].slideCount >= 1

\* A context in the registry has one slide, a deck id and a theme.
C27_Witness ==
    \E a \in Addresses :
        /\ IsRegistered(a)
        /\ heap[a].themeId # None
        /\ HasDeck(heap[a].deckId)
        /\ heap[a].slideCount = 1

\* C28: theme options are only offered for a presentation that has slides:
\* in every reachable state a context whose themeOffered is true has
\* slideCount >= 1, whatever create_slide and create_slide_carousel calls
\* touched it, a carousel of an empty slides_data list included.
C28_OfferedOnlyWithSlides ==
    \A a \in Addresses : heap[a].themeOffered => heap[a].slideCount >= 1

\* The generation of slide k of carousel call c fails in this step.
CarouselSlideFails(c, k) ==
    /\ calls[c].tool = "create_slide_carousel"
    /\ calls[c].pc = "fetch"
    /\ calls[c].i = k
    /\ calls'[c].pc = "done"

\* C29: when the generation of slide k fails inside a create_slide_carousel
\* call of n slides, no request is made for slides k+1..n, then or later;
\* the context keeps what slides 1..k-1 did to it (k-1 generations counted,
\* the deck id if one was stored); the call never changes themeOffered; and
\* the response is error-flagged, without presentation_id and without the
\* slides already created.
C29_CarouselStopsAtFirstFailure ==
    /\ [][ \A c \in CallIds, k \in 1..MaxSlides :
             CarouselSlideFails(c, k) =>
                 /\ calls'[c].reqs = calls[c].reqs
                 /\ Len(calls[c].reqs) = k
                 /\ Len(calls[c].results) = k - 1
                 /\ heap' = heap
                 /\ presentations' = presentations
                 /\ heap[calls[c].obj].slideCount >= k - 1
                 /\ calls'[c].out.returned /\ calls'[c].out.isError
                 /\ calls'[c].out.presentation_id = None
                 /\ calls'[c].out.slides = <<>>
                 /\ ~calls'[c].out.theme_options ]_vars
    /\ [][ \A c \in CallIds :
             /\ calls[c].pc = "done" => calls'[c] = calls[c]
             /\ (/\ calls[c].tool = "create_slide_carousel"
                 /\ calls'[c] # calls[c]
                 /\ ~(calls'[c].pc = "done" /\ ~calls'[c].out.isError))
                    => heap'[calls[c].obj].themeOffered
                           = heap[calls[c].obj].themeOffered ]_vars

\* A carousel of two slides whose second generation failed: two requests
\* were made, the first slide is counted and gave the deck id, the theme
\* was not offered, and the response is an error without id and slides.
C29_Witness ==
    \E c \in CallIds :
        /\ calls[c].tool = "create_slide_carousel"
        /\ calls[c].slides = 2
        /\ calls[c].pc = "done" /\ calls[c].out.isError
        /\ Len(calls[c].reqs) = 2 /\ Len(calls[c].results) = 1
        /\ heap[calls[c].obj].slideCount = 1
        /\ HasDeck(heap[calls[c].obj].deckId)
        /\ ~heap[calls[c].obj].themeOffered
        /\ calls[c].out.presentation_id = None
        /\ calls[c].out.slides = <<>>

\* The generation of create_slide call c, made without a token, fails in
\* this step.
TokenlessCreateFails(c) ==
    /\ calls[c].tool = "create_slide"
    /\ ~Truthy(calls[c].presentation_id)
    /\ calls[c].pc = "fetch"
    /\ calls'[c].pc = "done"

\* No response so far carries presentation id p.
NeverReturned(p) ==
    \A c \in CallIds : calls[c].out.presentation_id # Some(p)

\* C30: a create_slide call with an empty token whose generation fails is
\* not rolled back: the failure step changes neither the registry nor any
\* context, the response is error-flagged and carries no presentation id,
\* and the context the call created, if it has not been evicted meanwhile
\* and no other call got hold of it, is in the registry with slideCount 0,
\* no deckId, no themeId, themeOffered false and an id that no response has
\* carried; a context leaves the registry only in a run of the cleanup
\* timer that finds it older than 24 hours.
C30_FailedCreateLeavesOrphan ==
    /\ [][ \A c \in CallIds :
             TokenlessCreateFails(c) =>
                 LET a == calls[c].obj
                 IN  /\ presentations' = presentations
                     /\ heap' = heap
                     /\ calls'[c].out.returned /\ calls'[c].out.isError
                     /\ calls'[c].out.presentation_id = None
                     /\ (CallsOn(a) = {c} /\ IsRegistered(a)) =>
                            /\ IsRegistered(a)'
                            /\ heap'[a].slideCount = 0
                            /\ heap'[a].deckId = None
                            /\ heap'[a].themeId = None
                            /\ ~heap'[a].themeOffered
                            /\ NeverReturned(heap[a].presentationId)' ]_vars
    /\ [][ \A a \in Addresses :
             (IsRegistered(a) /\ ~IsRegistered(a)') =>
                 /\ swept'
                 /\ heap[a].lastUsed < now - RETENTION_MS ]_vars

\* A create_slide call without token has failed and the context it created
\* is still in the registry, untouched, at a time when the clock has moved
\* on and the cleanup timer has run.
C30_Witness ==
    \E c \in CallIds :
        /\ calls[c].tool = "create_slide"
        /\ ~Truthy(calls[c].presentation_id)
        /\ calls[c].pc = "done" /\ calls[c].out.isError
        /\ calls[c].obj # 0
        /\ IsRegistered(calls[c].obj)
        /\ CallsOn(calls[c].obj) = {c}
        /\ heap[calls[c].obj].slideCount = 0
        /\ NeverReturned(heap[calls[c].obj].presentationId)
        /\ Cardinality(DOMAIN presentations) = 2
        /\ now = heap[calls[c].obj].lastUsed + RETENTION_MS

====
